---- MODULE Spec2Model ----
(***************************************************************************)
(* Subscription tracker: the Subscription model's derivations (monthly and *)
(* yearly cost, next billing date, reminder-due decision) and the          *)
(* subscription controller's handlers over the stored records.             *)
(*                                                                         *)
(* Time is counted in whole hours since an arbitrary origin; the source    *)
(* counts milliseconds and divides by 1000*60*60 (hours) or 1000*60*60*24  *)
(* (days).  An optional field (undefined/null in the source) is a set with *)
(* at most one element: {} is unset, {v} is the value v.  A Number is an   *)
(* exact fraction.                                                         *)
(***************************************************************************)
EXTENDS Integers, Sequences, FiniteSets, TLC

VARIABLES
    store,   \* the subscriptions collection: id -> stored document
    used,    \* the ids ever given to a document (an ObjectId is never reused)
    now,     \* the wall clock (Date.now()), in hours
    event,   \* the last step taken and what it answered
    sentAt,  \* the dispatcher's own log: id -> the times of its sends
    probe    \* a call of a pure derivation: its inputs and its result

vars == <<store, used, now, event, sentAt, probe>>

----------------------------------------------------------------------------
(* Bounds and program constants *)

MaxTime == 48            \* the clock stops advancing here (hours)

DebounceHours == 24      \* "if (hoursSinceLastReminder < 24)"
HoursPerDay == 24        \* 1000 * 60 * 60 * 24 ms, in hours
DefaultReminderDays == 3 \* reminderDaysBefore: default 3

TickHours == HoursPerDay \div 2   \* the clock's resolution: half a day

Users == {"A", "B"}
IdOrder == <<"s1">>     \* the ids the collection hands out, in order
SubIds == {IdOrder[n] : n \in 1..Len(IdOrder)}
Statuses == {"active", "cancelled", "paused"}

NoEvent == [op |-> "none", actor |-> "none", id |-> "none", at |-> 0,
            code |-> 0, due |-> FALSE, ids |-> {}]

----------------------------------------------------------------------------
(* Reminder-due decision: subscriptionSchema.methods.shouldSendReminder *)

hoursSinceLastReminder(sub, t) ==
    t - (CHOOSE l \in sub.lastReminderSent : TRUE)

\* (nextBillingDate - Date.now()) in hours; the source divides it by the
\* length of a day and compares the quotient with reminderDaysBefore
hoursUntilBilling(sub, t) == sub.nextBillingDate - t

\* daysUntilBilling <= this.reminderDaysBefore, the latter a Number n/d
withinReminderDays(sub, t) ==
    hoursUntilBilling(sub, t) * sub.reminderDaysBefore.d
        <= sub.reminderDaysBefore.n * HoursPerDay

shouldSendReminderNoUpper(sub, t) ==
    IF sub.status # "active" \/ ~sub.reminderEnabled
    THEN FALSE
    ELSE IF sub.lastReminderSent # {}
            /\ hoursSinceLastReminder(sub, t) < DebounceHours
         THEN FALSE
         ELSE hoursUntilBilling(sub, t) > 0

shouldSendReminderNoDebounce(sub, t) ==
    IF sub.status # "active" \/ ~sub.reminderEnabled
    THEN FALSE
    ELSE /\ withinReminderDays(sub, t)
         /\ hoursUntilBilling(sub, t) > 0

shouldSendReminderAtBilling(sub, t) ==
    IF sub.status # "active" \/ ~sub.reminderEnabled
    THEN FALSE
    ELSE IF sub.lastReminderSent # {}
            /\ hoursSinceLastReminder(sub, t) < DebounceHours
         THEN FALSE
         ELSE /\ withinReminderDays(sub, t)
              /\ hoursUntilBilling(sub, t) >= 0

shouldSendReminder(sub, t) ==
    IF sub.status # "active" \/ ~sub.reminderEnabled
    THEN FALSE
    ELSE IF sub.lastReminderSent # {}
            /\ hoursSinceLastReminder(sub, t) < DebounceHours
         THEN FALSE
         ELSE /\ withinReminderDays(sub, t)
              /\ hoursUntilBilling(sub, t) > 0

----------------------------------------------------------------------------
(* The clock and the scheduler's evaluation of one record *)

Tick ==
    /\ now < MaxTime
    /\ now' = now + TickHours
    /\ UNCHANGED <<store, used, event, sentAt, probe>>

EvaluateReminderMarksSent(id) ==
    /\ id \in DOMAIN store
    /\ event' = [NoEvent EXCEPT !.op = "evaluate", !.actor = "cron", !.id = id,
                                !.at = now,
                                !.due = shouldSendReminder(store[id], now)]
    /\ store' = IF shouldSendReminder(store[id], now)
                THEN [store EXCEPT ![id].lastReminderSent = {now}]
                ELSE store
    /\ UNCHANGED <<used, now, sentAt, probe>>

EvaluateReminder(id) ==
    /\ id \in DOMAIN store
    /\ event' = [NoEvent EXCEPT !.op = "evaluate", !.actor = "cron", !.id = id,
                                !.at = now,
                                !.due = shouldSendReminder(store[id], now)]
    /\ UNCHANGED <<store, used, now, sentAt, probe>>

----------------------------------------------------------------------------
(* Specification of the reminder decision alone: one stored record drawn   *)
(* from every combination of the fields the decision reads, evaluated as   *)
(* the clock advances.                                                     *)

ReminderDays == {[n |-> k, d |-> 1] : k \in {1, 2, DefaultReminderDays}}
ReminderBillingDates == {0, 12, 30, 36, 60, 84}
ReminderSentTimes == {{}, {0}, {6}, {12}, {24}}

ReminderRecords ==
    [user : {"A"}, status : Statuses, reminderEnabled : BOOLEAN,
     reminderDaysBefore : ReminderDays, nextBillingDate : ReminderBillingDates,
     lastReminderSent : ReminderSentTimes]

InitReminder ==
    /\ store \in [{"s1"} -> ReminderRecords]
    /\ used = {"s1"}
    /\ now = 0
    /\ event = NoEvent
    /\ sentAt = [i \in SubIds |-> {}]
    /\ probe = [fn |-> "none"]

NextReminder ==
    \/ Tick
    \/ \E id \in SubIds : EvaluateReminder(id)

SpecReminder == InitReminder /\ [][NextReminder]_vars

----------------------------------------------------------------------------
(* Cost normalisation: the virtuals monthlyCost and yearlyCost.  A Number  *)
(* is an exact fraction [n, d] in lowest terms with d > 0.                 *)

RECURSIVE GCD(_, _)
GCD(a, b) == IF b = 0 THEN a ELSE GCD(b, a % b)

Rat(n, d) ==
    LET g == GCD(IF n < 0 THEN 0 - n ELSE n, d)
    IN  IF g = 0 THEN [n |-> 0, d |-> 1] ELSE [n |-> n \div g, d |-> d \div g]

RatMul(a, b) == Rat(a.n * b.n, a.d * b.d)
RatDiv(a, k) == Rat(a.n, a.d * k)

WeeksPerMonth == Rat(433, 100)    \* the literal 4.33

BillingCycles == {"weekly", "monthly", "quarterly", "yearly"}

monthlyCostFourWeeks(cost, billingCycle) ==
    CASE billingCycle = "weekly"    -> RatMul(cost, Rat(4, 1))
      [] billingCycle = "monthly"   -> cost
      [] billingCycle = "quarterly" -> RatDiv(cost, 4)
      [] billingCycle = "yearly"    -> RatDiv(cost, 12)
      [] OTHER                      -> cost

monthlyCostNoFallback(cost, billingCycle) ==
    CASE billingCycle = "weekly"    -> RatMul(cost, WeeksPerMonth)
      [] billingCycle = "monthly"   -> cost
      [] billingCycle = "quarterly" -> RatDiv(cost, 3)
      [] billingCycle = "yearly"    -> RatDiv(cost, 12)
      [] OTHER                      -> Rat(0, 1)

monthlyCost(cost, billingCycle) ==
    CASE billingCycle = "weekly"    -> RatMul(cost, WeeksPerMonth)
      [] billingCycle = "monthly"   -> cost
      [] billingCycle = "quarterly" -> RatDiv(cost, 3)
      [] billingCycle = "yearly"    -> RatDiv(cost, 12)
      [] OTHER                      -> cost

yearlyCostFromCost(cost, billingCycle) ==
    CASE billingCycle = "weekly"    -> RatMul(cost, Rat(52, 1))
      [] billingCycle = "monthly"   -> RatMul(cost, Rat(12, 1))
      [] billingCycle = "quarterly" -> RatMul(cost, Rat(4, 1))
      [] OTHER                      -> cost

yearlyCost(cost, billingCycle) ==
    RatMul(monthlyCost(cost, billingCycle), Rat(12, 1))

\* reading both virtuals of a document (toJSON with virtuals: true)
ReadVirtuals ==
    /\ probe.fn = "cost" /\ ~probe.done
    /\ probe' = [probe EXCEPT
                   !.done = TRUE,
                   !.monthlyCost = monthlyCost(probe.cost, probe.billingCycle),
                   !.yearlyCost = yearlyCost(probe.cost, probe.billingCycle)]
    /\ UNCHANGED <<store, used, now, event, sentAt>>

MaxCost == 12     \* whole amounts 0..MaxCost are drawn as costs

CostInputs ==
    {Rat(c, 1) : c \in 0..MaxCost}
    \cup {Rat(100, 1), Rat(300, 1), Rat(1200, 1), Rat(2308, 100), Rat(1, 3)}

CycleInputs == BillingCycles \cup {"daily"}

InitCost ==
    /\ store = <<>>
    /\ used = {}
    /\ now = 0
    /\ event = NoEvent
    /\ sentAt = [i \in SubIds |-> {}]
    /\ probe \in [fn : {"cost"}, cost : CostInputs, billingCycle : CycleInputs,
                  done : {FALSE}, monthlyCost : {Rat(0, 1)},
                  yearlyCost : {Rat(0, 1)}]

NextCost == ReadVirtuals

SpecCost == InitCost /\ [][NextCost]_vars

----------------------------------------------------------------------------
(* Billing date calculation: calculateNextBillingDate on a JavaScript      *)
(* Date.  A date is its local calendar fields [y, m, d] with the month     *)
(* counted from 0 as getMonth does; the time of day is carried unchanged   *)
(* by every setter used and is left out.                                   *)

IsLeap(y) == (y % 4 = 0 /\ y % 100 # 0) \/ y % 400 = 0

DaysInMonth(y, m) ==
    IF m = 1 THEN (IF IsLeap(y) THEN 29 ELSE 28)
    ELSE IF m \in {3, 5, 8, 10} THEN 30 ELSE 31

\* Date's MakeDay/MakeDate: a month beyond 11 carries into the year, and a
\* day beyond the month's last day runs on into the following months
RECURSIVE MakeDate(_, _, _)
MakeDate(y, m, d) ==
    IF m > 11 THEN MakeDate(y + 1, m - 12, d)
    ELSE IF d > DaysInMonth(y, m) THEN MakeDate(y, m + 1, d - DaysInMonth(y, m))
    ELSE [y |-> y, m |-> m, d |-> d]

setDate(date, d) == MakeDate(date.y, date.m, d)
setMonth(date, m) == MakeDate(date.y, m, date.d)
setFullYear(date, y) == MakeDate(y, date.m, date.d)

calculateNextBillingDate(billingCycle, fromDate) ==
    CASE billingCycle = "weekly"    -> setDate(fromDate, fromDate.d + 7)
      [] billingCycle = "monthly"   -> setMonth(fromDate, fromDate.m + 1)
      [] billingCycle = "quarterly" -> setMonth(fromDate, fromDate.m + 3)
      [] billingCycle = "yearly"    -> setFullYear(fromDate, fromDate.y + 1)
      [] OTHER                      -> fromDate

\* "const date = new Date(fromDate)": the object the setters act on is a
\* fresh one, not the caller's
DateObjectAliased(fromRef) == fromRef

DateObject(fromRef) == "date"

\* the switch has no default branch and the method no throw statement
calculateNextBillingDateThrows(billingCycle) == FALSE

\* a call of the method on a document with the given billingCycle; heap
\* holds the Date objects by reference, the caller's under "fromDate"
CallCalculateNextBillingDate ==
    /\ probe.fn = "date" /\ ~probe.done
    /\ LET ref == DateObject("fromDate")
           copied == (ref :> probe.heap["fromDate"]) @@ probe.heap
           after == [copied EXCEPT
                       ![ref] = calculateNextBillingDate(probe.billingCycle,
                                                         copied[ref])]
       IN  probe' = [probe EXCEPT
                       !.done = TRUE,
                       !.threw = calculateNextBillingDateThrows(
                                     probe.billingCycle),
                       !.heap = after,
                       !.ret = ref,
                       !.result = after[ref]]
    /\ UNCHANGED <<store, used, now, event, sentAt>>

Years == {2023, 2024}

DateInputs ==
    {dt \in [y : Years, m : 0..11, d : 1..31] : dt.d <= DaysInMonth(dt.y, dt.m)}

InitDate ==
    /\ store = <<>>
    /\ used = {}
    /\ now = 0
    /\ event = NoEvent
    /\ sentAt = [i \in SubIds |-> {}]
    /\ probe \in {[fn |-> "date", billingCycle |-> b, fromDate |-> dt,
                   done |-> FALSE, threw |-> FALSE,
                   heap |-> ("fromDate" :> dt), ret |-> "none",
                   result |-> dt] :
                     b \in CycleInputs, dt \in DateInputs}

NextDate == CallCalculateNextBillingDate

SpecDate == InitDate /\ [][NextDate]_vars

----------------------------------------------------------------------------
(* Queries over the collection.  For these the stored document also has    *)
(* its cost, billingCycle, category and createdAt; dates are hours.        *)

RatAdd(a, b) == Rat(a.n * b.d + b.n * a.d, a.d * b.d)
RatLess(a, b) == a.n * b.d < b.n * a.d

\* Number.prototype.toFixed(2) of a non-negative number: the nearest count
\* of hundredths, the larger one on a tie, written as "int.frac"
toFixed(x) ==
    LET h == (2 * 100 * x.n + x.d) \div (2 * x.d)
    IN  [int |-> h \div 100, frac |-> h % 100]

\* Math.ceil(a / b) for b > 0
Ceil(a, b) == 0 - ((0 - a) \div b)

\* Subscription.find({ user: userId, status: "active" })
activeSubscriptionsAnyStatus(st, u) == {i \in DOMAIN st : st[i].user = u}

activeSubscriptions(st, u) ==
    {i \in DOMAIN st : st[i].user = u /\ st[i].status = "active"}

\* reduce((sum, sub) => sum + sub.monthlyCost, 0) over the found documents
RECURSIVE SumMonthlyCost(_, _)
SumMonthlyCost(st, ids) ==
    IF ids = {} THEN Rat(0, 1)
    ELSE LET i == CHOOSE j \in ids : TRUE
         IN  RatAdd(monthlyCost(st[i].cost, st[i].billingCycle),
                    SumMonthlyCost(st, ids \ {i}))

Categories == {"Entertainment", "Software", "Fitness", "Education",
               "Cloud Storage", "News & Media", "Gaming", "Utilities", "Other"}

\* the forEach that groups the active documents by category
byCategoryWithZeroEntries(st, ids) ==
    [c \in Categories |->
        [count |-> Cardinality({i \in ids : st[i].category = c}),
         totalMonthly |->
             SumMonthlyCost(st, {i \in ids : st[i].category = c})]]

byCategory(st, ids) ==
    [c \in {st[i].category : i \in ids} |->
        [count |-> Cardinality({i \in ids : st[i].category = c}),
         totalMonthly |->
             SumMonthlyCost(st, {i \in ids : st[i].category = c})]]

\* the value a sort option orders by, and the orders .sort() may return:
\* every arrangement of the found documents that respects the key (the
\* database promises no order among documents with equal keys)
KeyLess(st, a, b, key) ==
    CASE key = "cost"            -> RatLess(st[a].cost, st[b].cost)
      [] key = "createdAt"       -> st[a].createdAt < st[b].createdAt
      [] key = "nextBillingDate" -> st[a].nextBillingDate < st[b].nextBillingDate

Arrangements(ids) ==
    {q \in [1..Cardinality(ids) -> ids] :
        \A m, n \in 1..Cardinality(ids) : m # n => q[m] # q[n]}

SortedOrders(st, ids, key, dir) ==
    {q \in Arrangements(ids) :
        \A m, n \in 1..Cardinality(ids) :
            m < n => IF dir = 1 THEN ~KeyLess(st, q[n], q[m], key)
                                ELSE ~KeyLess(st, q[m], q[n], key)}

RenewalWindowDays == 30     \* setDate(getDate() + 30)

\* the second find: active documents of the user with nextBillingDate
\* between $gte and $lte
upcomingRenewals(st, u, gte, lte) ==
    {i \in activeSubscriptions(st, u) :
        gte <= st[i].nextBillingDate /\ st[i].nextBillingDate <= lte}

\* what the clock may advance by between two reads of it in one handler
ClockDrifts == {0, 1}

\* GET /api/subscriptions/stats/summary with the whole response.  The clock
\* is read for thirtyDaysFromNow (now), again for $gte (gteAt) and again for
\* daysUntil once the second find has answered (mapAt).
StatsSummary(u) ==
    /\ probe.fn = "stats" /\ ~probe.done
    /\ \E d2 \in ClockDrifts, d3 \in ClockDrifts :
         LET gteAt == now + d2
             mapAt == gteAt + d3
             thirtyDaysFromNow == now + RenewalWindowDays * HoursPerDay
             active == activeSubscriptions(store, u)
             total == SumMonthlyCost(store, active)
             found == upcomingRenewals(store, u, gteAt, thirtyDaysFromNow)
         IN  \E order \in SortedOrders(store, found, "nextBillingDate", 1) :
               /\ probe' =
                    [fn |-> "stats", done |-> TRUE, user |-> u, at |-> now,
                     gteAt |-> gteAt, mapAt |-> mapAt,
                     totalSubscriptions |-> Cardinality(active),
                     totalMonthly |-> toFixed(total),
                     totalYearly |-> toFixed(RatMul(total, Rat(12, 1))),
                     byCategory |-> byCategory(store, active),
                     upcomingRenewals |->
                        [k \in 1..Len(order) |->
                           [id |-> order[k],
                            cost |-> store[order[k]].cost,
                            nextBillingDate |-> store[order[k]].nextBillingDate,
                            daysUntil |->
                               Ceil(store[order[k]].nextBillingDate - mapAt,
                                    HoursPerDay)]]]
               /\ now' = mapAt
    /\ UNCHANGED <<store, used, event, sentAt>>

\* the ids of the collection in the order the documents were inserted
NaturalOrder == <<"s1", "s2", "s3">>

QueryIds == {NaturalOrder[k] : k \in DOMAIN NaturalOrder}

Doc(u, st, c, b, cat, nbd, cr) ==
    [user |-> u, status |-> st, cost |-> c, billingCycle |-> b,
     category |-> cat, nextBillingDate |-> nbd, createdAt |-> cr]

\* the documents each id may hold when the summary is asked for
StatsDocs(id) ==
    CASE id = "s1" ->
           {Doc(os[1], os[2], Rat(10, 1), "monthly", "Entertainment", nbd, 0) :
              os \in {<<"A", "active">>, <<"A", "cancelled">>,
                      <<"A", "paused">>, <<"B", "active">>},
              nbd \in {0 - 1, 0, 1, 24, 25}}
      [] id = "s2" ->
           {Doc(os[1], os[2], cc[1], cc[2], "Software", nbd, 0) :
              os \in {<<"A", "active">>, <<"A", "paused">>, <<"B", "active">>},
              cc \in {<<Rat(120, 1), "yearly">>, <<Rat(10, 1), "weekly">>},
              nbd \in {0, 48, 720}}
      [] id = "s3" ->
           {Doc("A", st, cc[1], cc[2], cc[3], nbd, 0) :
              st \in {"active", "cancelled"},
              cc \in {<<Rat(30, 1), "quarterly", "Entertainment">>,
                      <<Rat(10, 1), "quarterly", "Fitness">>},
              nbd \in {1, 720, 721}}

\* every collection holding, for some of the ids, one of the documents
\* docs[id]
Collections(docs) ==
    UNION {{f \in [S -> UNION {docs[i] : i \in S}] :
               \A i \in S : f[i] \in docs[i]} : S \in SUBSET QueryIds}

InitStats ==
    /\ store \in Collections([i \in QueryIds |-> StatsDocs(i)])
    /\ used = DOMAIN store
    /\ now = 0
    /\ event = NoEvent
    /\ sentAt = [i \in SubIds |-> {}]
    /\ probe = [fn |-> "stats", done |-> FALSE]

NextStats == \E u \in Users : StatsSummary(u)

SpecStats == InitStats /\ [][NextStats]_vars

----------------------------------------------------------------------------
(* Listing: GET /api/subscriptions on the server, and the subscriptions    *)
(* page, which fetches the whole list once and filters and sorts it in the *)
(* browser.  An absent query parameter is {}.                              *)

\* the query object built from req.query
queryIgnoresStatus(st, u, status, category) ==
    {i \in DOMAIN st :
        st[i].user = u /\ (category # {} => st[i].category \in category)}

query(st, u, status, category) ==
    {i \in DOMAIN st :
        /\ st[i].user = u
        /\ status # {} => st[i].status \in status
        /\ category # {} => st[i].category \in category}

\* the sort object built from req.query.sort
sortOptionAlwaysAscending(sort) ==
    CASE sort = {"cost-high"}   -> [key |-> "cost", dir |-> 1]
      [] sort = {"cost-low"}    -> [key |-> "cost", dir |-> 1]
      [] sort = {"date-newest"} -> [key |-> "createdAt", dir |-> 1]
      [] sort = {"date-oldest"} -> [key |-> "createdAt", dir |-> 1]
      [] OTHER                  -> [key |-> "nextBillingDate", dir |-> 1]

sortOption(sort) ==
    CASE sort = {"cost-high"}   -> [key |-> "cost", dir |-> 0 - 1]
      [] sort = {"cost-low"}    -> [key |-> "cost", dir |-> 1]
      [] sort = {"date-newest"} -> [key |-> "createdAt", dir |-> 0 - 1]
      [] sort = {"date-oldest"} -> [key |-> "createdAt", dir |-> 1]
      [] OTHER                  -> [key |-> "nextBillingDate", dir |-> 1]

\* GET /api/subscriptions?status=&category=&sort= with its whole response
ListSubscriptionsSumsAll(u, status, category, sort) ==
    /\ probe.fn = "list" /\ probe.stage = "start"
    /\ LET found == query(store, u, status, category)
           opt == sortOption(sort)
       IN  \E subscriptions \in SortedOrders(store, found, opt.key, opt.dir) :
             LET active == found
                 total == SumMonthlyCost(store, active)
             IN  probe' = [fn |-> "list", stage |-> "answered", user |-> u,
                           status |-> status, category |-> category,
                           sort |-> sort,
                           subscriptions |-> subscriptions,
                           count |-> Len(subscriptions),
                           totalMonthly |-> toFixed(total),
                           totalYearly |-> toFixed(RatMul(total, Rat(12, 1)))]
    /\ UNCHANGED <<store, used, now, event, sentAt>>

ListSubscriptions(u, status, category, sort) ==
    /\ probe.fn = "list" /\ probe.stage = "start"
    /\ LET found == query(store, u, status, category)
           opt == sortOption(sort)
       IN  \E subscriptions \in SortedOrders(store, found, opt.key, opt.dir) :
             LET active == {i \in found : store[i].status = "active"}
                 total == SumMonthlyCost(store, active)
             IN  probe' = [fn |-> "list", stage |-> "answered", user |-> u,
                           status |-> status, category |-> category,
                           sort |-> sort,
                           subscriptions |-> subscriptions,
                           count |-> Len(subscriptions),
                           totalMonthly |-> toFixed(total),
                           totalYearly |-> toFixed(RatMul(total, Rat(12, 1)))]
    /\ UNCHANGED <<store, used, now, event, sentAt>>

\* the page's fetchSubscriptions: getAllSubscriptions() with no parameter,
\* the answer kept in the subscriptions state
fetchSubscriptions(u) ==
    /\ probe.fn = "list" /\ probe.stage = "start"
    /\ \E subscriptions \in
            SortedOrders(store, query(store, u, {}, {}), "nextBillingDate", 1) :
          probe' = [fn |-> "list", stage |-> "fetched", user |-> u,
                    subscriptions |-> subscriptions]
    /\ UNCHANGED <<store, used, now, event, sentAt>>

\* a.n/a.d - b.n/b.d up to a positive factor
RatCmp(a, b) == a.n * b.d - b.n * a.d

\* the comparator handed to filtered.sort (createdAt arrives as an ISO
\* string, which new Date(...).getTime() turns back into the same instant)
compare(a, b, sortBy) ==
    CASE sortBy = "cost-high"   -> RatCmp(b.cost, a.cost)
      [] sortBy = "cost-low"    -> RatCmp(a.cost, b.cost)
      [] sortBy = "date-newest" -> b.createdAt - a.createdAt
      [] sortBy = "date-oldest" -> a.createdAt - b.createdAt
      [] OTHER                  -> 0

\* Array.prototype.sort, which is stable: x goes behind every element that
\* does not compare greater than it
RECURSIVE Insert(_, _, _, _)
Insert(st, sorted, x, sortBy) ==
    IF sorted = <<>> THEN <<x>>
    ELSE IF compare(st[Head(sorted)], st[x], sortBy) > 0
         THEN <<x>> \o sorted
         ELSE <<Head(sorted)>> \o Insert(st, Tail(sorted), x, sortBy)

RECURSIVE ArraySort(_, _, _)
ArraySort(st, arr, sortBy) ==
    IF arr = <<>> THEN <<>>
    ELSE Insert(st, ArraySort(st, SubSeq(arr, 1, Len(arr) - 1), sortBy),
                arr[Len(arr)], sortBy)

\* the page's applyFilters over the fetched list
applyFilters(statusFilter, categoryFilter, sortBy) ==
    /\ probe.fn = "list" /\ probe.stage \in {"fetched", "filtered"}
    /\ LET byStatus ==
             IF statusFilter # "all"
             THEN SelectSeq(probe.subscriptions,
                            LAMBDA i : store[i].status = statusFilter)
             ELSE probe.subscriptions
           filtered ==
             IF categoryFilter # "all"
             THEN SelectSeq(byStatus,
                            LAMBDA i : store[i].category = categoryFilter)
             ELSE byStatus
       IN  probe' = [fn |-> "list", stage |-> "filtered",
                     user |-> probe.user,
                     subscriptions |-> probe.subscriptions,
                     statusFilter |-> statusFilter,
                     categoryFilter |-> categoryFilter, sortBy |-> sortBy,
                     filteredSubs |-> ArraySort(store, filtered, sortBy)]
    /\ UNCHANGED <<store, used, now, event, sentAt>>

\* the documents each id may hold when the list is asked for
ListDocs(id) ==
    CASE id = "s1" ->
           {Doc("A", "active", Rat(50, 1), "monthly", "Entertainment", 30, 1),
            Doc("A", "active", Rat(10, 1), "monthly", "Entertainment", 30, 1),
            Doc("A", "cancelled", Rat(10, 1), "monthly", "Entertainment", 30, 1),
            Doc("A", "paused", Rat(50, 1), "yearly", "Software", 30, 1),
            Doc("B", "active", Rat(10, 1), "monthly", "Entertainment", 30, 1)}
      [] id = "s2" ->
           {Doc("A", "active", Rat(10, 1), "monthly", "Entertainment", 20, 2),
            Doc("A", "active", Rat(10, 1), "weekly", "Software", 30, 1),
            Doc("A", "paused", Rat(30, 1), "monthly", "Entertainment", 20, 2),
            Doc("A", "cancelled", Rat(10, 1), "monthly", "Software", 30, 2),
            Doc("A", "active", Rat(50, 1), "quarterly", "Entertainment", 10, 2)}
      [] id = "s3" ->
           {Doc("A", "active", Rat(30, 1), "monthly", "Entertainment", 10, 3),
            Doc("A", "active", Rat(10, 1), "quarterly", "Software", 20, 2),
            Doc("A", "cancelled", Rat(10, 1), "monthly", "Entertainment", 30, 3)}

\* the values a request may carry and the values the page's menus offer
StatusParams == {{}, {"all"}, {"active"}, {"cancelled"}, {"paused"}}
CategoryParams == {{}, {"all"}, {"Entertainment"}, {"Software"}}
SortParams == {{}, {"cost-high"}, {"cost-low"}, {"date-newest"}, {"date-oldest"}}
StatusMenu == {"all", "active", "cancelled", "paused"}
CategoryMenu == {"all", "Entertainment", "Software"}
SortMenu == {"date-newest", "date-oldest", "cost-high", "cost-low"}

InitList ==
    /\ store \in Collections([i \in QueryIds |-> ListDocs(i)])
    /\ used = DOMAIN store
    /\ now = 0
    /\ event = NoEvent
    /\ sentAt = [i \in SubIds |-> {}]
    /\ probe = [fn |-> "list", stage |-> "start"]

NextList ==
    \/ \E u \in Users, status \in StatusParams, category \in CategoryParams,
          sort \in SortParams : ListSubscriptions(u, status, category, sort)
    \/ \E u \in Users : fetchSubscriptions(u)
    \/ \E statusFilter \in StatusMenu, categoryFilter \in CategoryMenu,
          sortBy \in SortMenu : applyFilters(statusFilter, categoryFilter, sortBy)

SpecList == InitList /\ [][NextList]_vars

----------------------------------------------------------------------------
(* The subscription controller.  A request is an authenticated user (the   *)
(* protect middleware's req.user), a route parameter and a body; a body    *)
(* carries each field as an optional value, and lastReminderSent also as   *)
(* an explicit null (key present, value {}).                               *)

\* express-validator's validateSubscription followed by
\* handleValidationErrors (name is present and valid in every body drawn)
validateSubscription(body) ==
    /\ body.cost # {} /\ \A c \in body.cost : c.n >= 0
    /\ body.billingCycle # {} /\ body.billingCycle \subseteq BillingCycles
    /\ body.category # {} /\ body.category \subseteq Categories
    /\ body.nextBillingDate # {}

\* the value an optional body field gives a stored field
Supplied(opt, old) == IF opt = {} THEN old ELSE CHOOSE v \in opt : TRUE

\* reminderDaysBefore: min 1, max 30 (a Number n/d; nothing asks for a whole
\* number)
MinReminderDays == 1
MaxReminderDays == 30

ValidReminderDaysWhole(r) ==
    /\ r.d = 1
    /\ MinReminderDays * r.d <= r.n /\ r.n <= MaxReminderDays * r.d

ValidReminderDays(r) ==
    MinReminderDays * r.d <= r.n /\ r.n <= MaxReminderDays * r.d

\* the schema's validators as document validation runs them before a save:
\* required paths, Number min/max, String enum
SchemaValid(draft) ==
    /\ draft.cost.n >= 0
    /\ draft.billingCycle \in BillingCycles
    /\ draft.category \in Categories
    /\ draft.status \in Statuses
    /\ ValidReminderDays(draft.reminderDaysBefore)
    /\ draft.nextBillingDate # {}

\* a Date in hours as calendar fields and back; hour 0 is 2024-01-01T00:00
DateOfHours(h) == MakeDate(2024, 0, 1 + (h \div HoursPerDay))

RECURSIVE DaysBeforeMonth(_, _)
DaysBeforeMonth(y, m) ==
    IF y = 2024 /\ m = 0 THEN 0
    ELSE IF m = 0 THEN DaysBeforeMonth(y - 1, 11) + DaysInMonth(y - 1, 11)
    ELSE DaysBeforeMonth(y, m - 1) + DaysInMonth(y, m - 1)

HoursOfDate(date, timeOfDay) ==
    (DaysBeforeMonth(date.y, date.m) + date.d - 1) * HoursPerDay + timeOfDay

\* subscriptionSchema.pre("save"), which runs once document validation has
\* passed
preSave(draft) ==
    IF draft.nextBillingDate = {}
    THEN [draft EXCEPT !.nextBillingDate =
            {HoursOfDate(calculateNextBillingDate(draft.billingCycle,
                                                   DateOfHours(draft.startDate)),
                         draft.startDate % HoursPerDay)}]
    ELSE draft

\* new Subscription(subscriptionData): the fields the handler copies from the
\* body (status is not one of them) and the schema's defaults; createdAt
\* and updatedAt are left out.  nextBillingDate is still optional here.
NewDocument(u, body, t) ==
    [user |-> u,
     status |-> "active",
     cost |-> Supplied(body.cost, [n |-> 0, d |-> 1]),
     billingCycle |-> Supplied(body.billingCycle, "monthly"),
     category |-> Supplied(body.category, ""),
     startDate |-> Supplied(body.startDate, t),
     nextBillingDate |-> body.nextBillingDate,
     reminderEnabled |-> Supplied(body.reminderEnabled, TRUE),
     reminderDaysBefore |->
         Supplied({r \in body.reminderDaysBefore : r.n # 0},
                  [n |-> DefaultReminderDays, d |-> 1]),
     lastReminderSent |-> {}]

\* Subscription.create's new _id
NewId == IdOrder[Cardinality(used) + 1]

Respond(op, u, id, code, ids) ==
    event' = [NoEvent EXCEPT !.op = op, !.actor = u, !.id = id, !.at = now,
                             !.code = code, !.ids = ids]

\* POST /api/subscriptions
createSubscription(u, body) ==
    /\ used # SubIds
    /\ IF ~validateSubscription(body)
       THEN /\ Respond("create", u, "none", 400, {})
            /\ UNCHANGED <<store, used>>
       ELSE IF ~SchemaValid(NewDocument(u, body, now))
       THEN /\ Respond("create", u, "none", 500, {})
            /\ UNCHANGED <<store, used>>
       ELSE LET saved == preSave(NewDocument(u, body, now))
                doc == [saved EXCEPT !.nextBillingDate =
                            CHOOSE d \in saved.nextBillingDate : TRUE]
            IN  /\ store' = [i \in DOMAIN store \cup {NewId} |->
                               IF i = NewId THEN doc ELSE store[i]]
                /\ used' = used \cup {NewId}
                /\ Respond("create", u, NewId, 201, {NewId})
    /\ UNCHANGED <<now, sentAt, probe>>

\* GET /api/subscriptions/:id
getSubscriptionById(u, id) ==
    /\ IF id \notin DOMAIN store
       THEN Respond("get", u, id, 404, {})
       ELSE IF store[id].user # u
            THEN Respond("get", u, id, 403, {})
            ELSE Respond("get", u, id, 200, {id})
    /\ UNCHANGED <<store, used, now, sentAt, probe>>

\* the update validators findByIdAndUpdate runs with runValidators on the
\* paths the body sets (cost, billingCycle and category have passed
\* validateSubscription already)
UpdateValid(body) ==
    /\ body.status \subseteq Statuses
    /\ \A r \in body.reminderDaysBefore : ValidReminderDays(r)

\* the document after findByIdAndUpdate(id, {...req.body}): every key of
\* the body that is a path of the schema is set
ApplyUpdateKeepsOwnerAndSent(doc, body) ==
    [user |-> doc.user,
     status |-> Supplied(body.status, doc.status),
     cost |-> Supplied(body.cost, doc.cost),
     billingCycle |-> Supplied(body.billingCycle, doc.billingCycle),
     category |-> Supplied(body.category, doc.category),
     startDate |-> Supplied(body.startDate, doc.startDate),
     nextBillingDate |-> Supplied(body.nextBillingDate, doc.nextBillingDate),
     reminderEnabled |-> Supplied(body.reminderEnabled, doc.reminderEnabled),
     reminderDaysBefore |->
         Supplied(body.reminderDaysBefore, doc.reminderDaysBefore),
     lastReminderSent |-> doc.lastReminderSent]

ApplyUpdateRecalculates(doc, body) ==
    [user |-> Supplied(body.user, doc.user),
     status |-> Supplied(body.status, doc.status),
     cost |-> Supplied(body.cost, doc.cost),
     billingCycle |-> Supplied(body.billingCycle, doc.billingCycle),
     category |-> Supplied(body.category, doc.category),
     startDate |-> Supplied(body.startDate, doc.startDate),
     nextBillingDate |->
         IF Supplied(body.billingCycle, doc.billingCycle) # doc.billingCycle
         THEN HoursOfDate(calculateNextBillingDate(
                              Supplied(body.billingCycle, doc.billingCycle),
                              DateOfHours(doc.startDate)),
                          doc.startDate % HoursPerDay)
         ELSE Supplied(body.nextBillingDate, doc.nextBillingDate),
     reminderEnabled |-> Supplied(body.reminderEnabled, doc.reminderEnabled),
     reminderDaysBefore |->
         Supplied(body.reminderDaysBefore, doc.reminderDaysBefore),
     lastReminderSent |-> IF body.hasLastReminderSent
                          THEN body.lastReminderSent
                          ELSE doc.lastReminderSent]

ApplyUpdate(doc, body) ==
    [user |-> Supplied(body.user, doc.user),
     status |-> Supplied(body.status, doc.status),
     cost |-> Supplied(body.cost, doc.cost),
     billingCycle |-> Supplied(body.billingCycle, doc.billingCycle),
     category |-> Supplied(body.category, doc.category),
     startDate |-> Supplied(body.startDate, doc.startDate),
     nextBillingDate |-> Supplied(body.nextBillingDate, doc.nextBillingDate),
     reminderEnabled |-> Supplied(body.reminderEnabled, doc.reminderEnabled),
     reminderDaysBefore |->
         Supplied(body.reminderDaysBefore, doc.reminderDaysBefore),
     lastReminderSent |-> IF body.hasLastReminderSent
                          THEN body.lastReminderSent
                          ELSE doc.lastReminderSent]

\* PUT /api/subscriptions/:id
updateSubscription(u, id, body) ==
    /\ IF ~validateSubscription(body)
       THEN /\ Respond("update", u, id, 400, {})
            /\ UNCHANGED store
       ELSE IF id \notin DOMAIN store
       THEN /\ Respond("update", u, id, 404, {})
            /\ UNCHANGED store
       ELSE IF store[id].user # u
       THEN /\ Respond("update", u, id, 403, {})
            /\ UNCHANGED store
       ELSE IF ~UpdateValid(body)
       THEN /\ Respond("update", u, id, 500, {})
            /\ UNCHANGED store
       ELSE /\ store' = [store EXCEPT ![id] = ApplyUpdate(store[id], body)]
            /\ Respond("update", u, id, 200, {id})
    /\ UNCHANGED <<used, now, sentAt, probe>>

\* DELETE /api/subscriptions/:id
deleteSubscriptionSoft(u, id) ==
    /\ IF id \notin DOMAIN store
       THEN /\ Respond("delete", u, id, 404, {})
            /\ UNCHANGED store
       ELSE IF store[id].user # u
       THEN /\ Respond("delete", u, id, 403, {})
            /\ UNCHANGED store
       ELSE /\ store' = [store EXCEPT ![id].status = "cancelled"]
            /\ Respond("delete", u, id, 200, {})
    /\ UNCHANGED <<used, now, sentAt, probe>>

deleteSubscription(u, id) ==
    /\ IF id \notin DOMAIN store
       THEN /\ Respond("delete", u, id, 404, {})
            /\ UNCHANGED store
       ELSE IF store[id].user # u
       THEN /\ Respond("delete", u, id, 403, {})
            /\ UNCHANGED store
       ELSE /\ store' = [i \in DOMAIN store \ {id} |-> store[i]]
            /\ Respond("delete", u, id, 200, {})
    /\ UNCHANGED <<used, now, sentAt, probe>>

\* GET /api/subscriptions: the documents the query { user, status? } finds
getAllSubscriptions(u, status) ==
    /\ Respond("list", u, "none", 200,
               {i \in DOMAIN store :
                    /\ store[i].user = u
                    /\ \A st \in status : store[i].status = st})
    /\ UNCHANGED <<store, used, now, sentAt, probe>>

\* GET /api/subscriptions/stats/summary: the documents counted and summed
getSubscriptionStats(u) ==
    /\ Respond("stats", u, "none", 200,
               {i \in DOMAIN store :
                    store[i].user = u /\ store[i].status = "active"})
    /\ UNCHANGED <<store, used, now, sentAt, probe>>

----------------------------------------------------------------------------
(* The reminder-dispatch collaborator: it sends exactly when the decision  *)
(* is true and then records the send time in lastReminderSent.             *)

Dispatch(id) ==
    /\ id \in DOMAIN store
    /\ shouldSendReminder(store[id], now)
    /\ store' = [store EXCEPT ![id].lastReminderSent = {now}]
    /\ sentAt' = [sentAt EXCEPT ![id] = @ \cup {now}]
    /\ event' = [NoEvent EXCEPT !.op = "dispatch", !.actor = "cron",
                                !.id = id, !.at = now, !.due = TRUE]
    /\ UNCHANGED <<used, now, probe>>

----------------------------------------------------------------------------
(* Specification of the controller, the clock and the dispatcher *)

NoBody ==
    [cost |-> {}, billingCycle |-> {}, category |-> {}, startDate |-> {},
     nextBillingDate |-> {}, status |-> {}, reminderEnabled |-> {},
     reminderDaysBefore |-> {}, user |-> {}, hasLastReminderSent |-> FALSE,
     lastReminderSent |-> {}]

\* what the form always sends: cost, billing cycle, category, start date
FormBody ==
    [NoBody EXCEPT !.cost = {[n |-> 10, d |-> 1]},
                   !.billingCycle = {"monthly"},
                   !.category = {"Other"},
                   !.startDate = {0}]

BillingDateInputs == {36, 84}

CreateBodies ==
    {FormBody}
    \cup {[FormBody EXCEPT !.nextBillingDate = {d}] : d \in BillingDateInputs}

\* an edit submits the required nextBillingDate and at most one other field
UpdateBodies ==
    {FormBody}
    \cup {[FormBody EXCEPT !.nextBillingDate = {d}] : d \in BillingDateInputs}
    \cup {[FormBody EXCEPT !.nextBillingDate = {36}, !.status = {st}] :
            st \in {"active", "paused"}}
    \cup {[FormBody EXCEPT !.nextBillingDate = {36}, !.user = {v}] : v \in Users}
    \cup {[FormBody EXCEPT !.nextBillingDate = {84},
                           !.hasLastReminderSent = TRUE,
                           !.lastReminderSent = l] : l \in {{}, {0}}}

Init ==
    /\ store = <<>>
    /\ used = {}
    /\ now = 0
    /\ event = NoEvent
    /\ sentAt = [i \in SubIds |-> {}]
    /\ probe = [fn |-> "none"]

Next ==
    \/ Tick
    \/ \E u \in Users, body \in CreateBodies : createSubscription(u, body)
    \/ \E u \in Users, id \in SubIds : getSubscriptionById(u, id)
    \/ \E u \in Users, id \in SubIds, body \in UpdateBodies :
          updateSubscription(u, id, body)
    \/ \E u \in Users, id \in SubIds : deleteSubscription(u, id)
    \/ \E u \in Users, status \in {{}, {"active"}} :
          getAllSubscriptions(u, status)
    \/ \E u \in Users : getSubscriptionStats(u)
    \/ \E id \in SubIds : EvaluateReminder(id)
    \/ \E id \in SubIds : Dispatch(id)

Spec == Init /\ [][Next]_vars

----------------------------------------------------------------------------
(* Specification of the create, update and delete requests alone, their    *)
(* bodies drawn from valid and invalid values of the validated fields.     *)

\* the form's body with a billing cycle, a nextBillingDate or none, and a
\* reminderDaysBefore or none
SaveFormBodies ==
    {[FormBody EXCEPT !.billingCycle = {b}, !.nextBillingDate = d,
                      !.reminderDaysBefore = r] :
        b \in {"monthly", "yearly"},
        d \in {{}, {36}, {84}},
        r \in {{}, {[n |-> 5, d |-> 2]}, {[n |-> 7, d |-> 1]}}}

\* a complete body with one more field set, to a value the data model
\* allows or to one it forbids
SaveBodies ==
    SaveFormBodies
    \cup {[FormBody EXCEPT !.nextBillingDate = {36}, !.cost = {c}] :
            c \in {[n |-> 0, d |-> 1], [n |-> 0 - 5, d |-> 1]}}
    \cup {[FormBody EXCEPT !.nextBillingDate = {36}, !.billingCycle = {b}] :
            b \in {"daily"}}
    \cup {[FormBody EXCEPT !.nextBillingDate = {36}, !.category = {c}] :
            c \in {"Pets"}}
    \cup {[FormBody EXCEPT !.nextBillingDate = {36}, !.startDate = {}]}
    \cup {[FormBody EXCEPT !.nextBillingDate = {36}, !.status = {st}] :
            st \in {"paused", "expired"}}
    \cup {[FormBody EXCEPT !.nextBillingDate = {36},
                           !.reminderDaysBefore = {[n |-> k, d |-> 1]}] :
            k \in {0, 31}}

\* a record starts out monthly (or with the unknown cycle the validator
\* refuses); yearly comes with an edit
SaveCreateBodies == {body \in SaveBodies : body.billingCycle # {"yearly"}}

NextSave ==
    \/ \E u \in Users, body \in SaveCreateBodies : createSubscription(u, body)
    \/ \E u \in Users, id \in SubIds, body \in SaveBodies :
          updateSubscription(u, id, body)
    \/ \E u \in Users, id \in SubIds : deleteSubscription(u, id)

SpecSave == Init /\ [][NextSave]_vars

----------------------------------------------------------------------------
(* Specification of the dispatcher over one record that the edit page keeps *)
(* resubmitting: the page loads the record, and what it later sends back is *)
(* the loaded record whole, with nextBillingDate cut to its date.           *)

\* the edit page's formData for a record loaded when its lastReminderSent
\* was loaded (a field that is unset is not in the JSON)
formData(doc, loaded) ==
    [cost |-> {doc.cost}, billingCycle |-> {doc.billingCycle},
     category |-> {doc.category}, startDate |-> {doc.startDate},
     nextBillingDate |->
         {(doc.nextBillingDate \div HoursPerDay) * HoursPerDay},
     status |-> {doc.status}, reminderEnabled |-> {doc.reminderEnabled},
     reminderDaysBefore |-> {doc.reminderDaysBefore}, user |-> {doc.user},
     hasLastReminderSent |-> loaded # {}, lastReminderSent |-> loaded]

\* handleSubmit of a page that was loaded before the first send or after
\* one of the sends made so far
SubmitEditPage(u, id) ==
    /\ id \in DOMAIN store
    /\ \E loaded \in {{}} \cup {{t} : t \in sentAt[id]} :
          updateSubscription(u, id, formData(store[id], loaded))

DispatchRecords ==
    {[user |-> "A", status |-> st, cost |-> [n |-> 10, d |-> 1],
      billingCycle |-> "monthly", category |-> "Other", startDate |-> 0,
      nextBillingDate |-> nbd, reminderEnabled |-> TRUE,
      reminderDaysBefore |-> k, lastReminderSent |-> {}] :
        st \in {"active", "paused"}, nbd \in {24, 48, 72}, k \in ReminderDays}

InitDispatch ==
    /\ store \in [{"s1"} -> DispatchRecords]
    /\ used = {"s1"}
    /\ now = 0
    /\ event = NoEvent
    /\ sentAt = [i \in SubIds |-> {}]
    /\ probe = [fn |-> "none"]

NextDispatch ==
    \/ Tick
    \/ \E id \in SubIds : Dispatch(id)
    \/ \E u \in Users, id \in SubIds : SubmitEditPage(u, id)

SpecDispatch == InitDispatch /\ [][NextDispatch]_vars

----------------------------------------------------------------------------
(* Specification of two requests in flight at once.  A handler runs up to  *)
(* each await and then yields: the steps of the two requests interleave,   *)
(* and each database call is atomic on its document.  probe.reqs holds the *)
(* two requests with their position and answer, probe.log the requests in  *)
(* the order their writes reached the database.                            *)

Request(op, u, id, body) ==
    [op |-> op, user |-> u, id |-> id, body |-> body, pc |-> "start",
     code |-> 0, subscription |-> {}, counted |-> {}, upcomingRenewals |-> <<>>]

Answer(r, code, subscription) ==
    probe' = [probe EXCEPT !.reqs[r].pc = "done", !.reqs[r].code = code,
                           !.reqs[r].subscription = subscription]

\* updateSubscription up to its first await: request validation, then
\* findById and the two early returns
updateFindById(r) ==
    LET q == probe.reqs[r] IN
    /\ probe.fn = "race" /\ q.op = "update" /\ q.pc = "start"
    /\ IF ~validateSubscription(q.body) THEN Answer(r, 400, {})
       ELSE IF q.id \notin DOMAIN store THEN Answer(r, 404, {})
       ELSE IF store[q.id].user # q.user THEN Answer(r, 403, {})
       ELSE probe' = [probe EXCEPT !.reqs[r].pc = "checked"]
    /\ UNCHANGED <<store, used, now, event, sentAt>>

\* the rest of updateSubscription: findByIdAndUpdate, whose result (null
\* when no document has the id) goes into the 200 answer
updateFindByIdAndUpdateReturnsOld(r) ==
    LET q == probe.reqs[r] IN
    /\ probe.fn = "race" /\ q.op = "update" /\ q.pc = "checked"
    /\ IF ~UpdateValid(q.body)
       THEN /\ Answer(r, 500, {})
            /\ UNCHANGED store
       ELSE IF q.id \in DOMAIN store
       THEN /\ store' = [store EXCEPT ![q.id] = ApplyUpdate(store[q.id], q.body)]
            /\ probe' = [probe EXCEPT
                           !.reqs[r].pc = "done", !.reqs[r].code = 200,
                           !.reqs[r].subscription = {store[q.id]},
                           !.log = Append(@, r)]
       ELSE /\ Answer(r, 200, {})
            /\ UNCHANGED store
    /\ UNCHANGED <<used, now, event, sentAt>>

updateFindByIdAndUpdate(r) ==
    LET q == probe.reqs[r] IN
    /\ probe.fn = "race" /\ q.op = "update" /\ q.pc = "checked"
    /\ IF ~UpdateValid(q.body)
       THEN /\ Answer(r, 500, {})
            /\ UNCHANGED store
       ELSE IF q.id \in DOMAIN store
       THEN /\ store' = [store EXCEPT ![q.id] = ApplyUpdate(store[q.id], q.body)]
            /\ probe' = [probe EXCEPT
                           !.reqs[r].pc = "done", !.reqs[r].code = 200,
                           !.reqs[r].subscription =
                               {ApplyUpdate(store[q.id], q.body)},
                           !.log = Append(@, r)]
       ELSE /\ Answer(r, 200, {})
            /\ UNCHANGED store
    /\ UNCHANGED <<used, now, event, sentAt>>

\* deleteSubscription up to its first await: findById and the early returns
deleteFindById(r) ==
    LET q == probe.reqs[r] IN
    /\ probe.fn = "race" /\ q.op = "delete" /\ q.pc = "start"
    /\ IF q.id \notin DOMAIN store THEN Answer(r, 404, {})
       ELSE IF store[q.id].user # q.user THEN Answer(r, 403, {})
       ELSE probe' = [probe EXCEPT !.reqs[r].pc = "checked"]
    /\ UNCHANGED <<store, used, now, event, sentAt>>

\* the rest of deleteSubscription: subscription.deleteOne(), which removes
\* the document with that _id if there still is one
deleteDeleteOne(r) ==
    LET q == probe.reqs[r] IN
    /\ probe.fn = "race" /\ q.op = "delete" /\ q.pc = "checked"
    /\ store' = [i \in DOMAIN store \ {q.id} |-> store[i]]
    /\ probe' = [probe EXCEPT !.reqs[r].pc = "done", !.reqs[r].code = 200,
                              !.log = Append(@, r)]
    /\ UNCHANGED <<used, now, event, sentAt>>

\* getSubscriptionStats up to its first await: the find of the active
\* documents, which are the ones counted and summed
statsFindActive(r) ==
    LET q == probe.reqs[r] IN
    /\ probe.fn = "race" /\ q.op = "stats" /\ q.pc = "start"
    /\ probe' = [probe EXCEPT
                   !.reqs[r].pc = "found",
                   !.reqs[r].counted = activeSubscriptions(store, q.user)]
    /\ UNCHANGED <<store, used, now, event, sentAt>>

\* the rest of getSubscriptionStats: the find of the upcoming renewals and
\* the answer
statsFindUpcoming(r) ==
    LET q == probe.reqs[r] IN
    /\ probe.fn = "race" /\ q.op = "stats" /\ q.pc = "found"
    /\ LET thirtyDaysFromNow == now + RenewalWindowDays * HoursPerDay
           found == upcomingRenewals(store, q.user, now, thirtyDaysFromNow)
       IN  \E order \in SortedOrders(store, found, "nextBillingDate", 1) :
             probe' = [probe EXCEPT
                         !.reqs[r].pc = "done", !.reqs[r].code = 200,
                         !.reqs[r].upcomingRenewals =
                            [k \in 1..Len(order) |->
                               [id |-> order[k],
                                daysUntil |->
                                   Ceil(store[order[k]].nextBillingDate - now,
                                        HoursPerDay)]]]
    /\ UNCHANGED <<store, used, now, event, sentAt>>

RaceRecords ==
    {[user |-> "A", status |-> st, cost |-> [n |-> 10, d |-> 1],
      billingCycle |-> "monthly", category |-> "Other", startDate |-> 0,
      nextBillingDate |-> nbd, reminderEnabled |-> TRUE,
      reminderDaysBefore |-> [n |-> DefaultReminderDays, d |-> 1],
      lastReminderSent |-> {}] :
        st \in {"active", "paused"}, nbd \in {36, 800}}

RaceBodies ==
    {[FormBody EXCEPT !.nextBillingDate = {d}, !.cost = {[n |-> c, d |-> 1]},
                      !.status = st] :
        d \in BillingDateInputs, c \in {10, 20},
        st \in {{}, {"active"}, {"paused"}}}
    \cup {FormBody}

RaceRequests ==
    {Request("update", u, "s1", body) : u \in Users, body \in RaceBodies}
    \cup {Request("delete", u, "s1", NoBody) : u \in Users}
    \cup {Request("stats", "A", "none", NoBody)}

InitRace ==
    /\ store \in [{"s1"} -> RaceRecords]
    /\ used = {"s1"}
    /\ now = 0
    /\ event = NoEvent
    /\ sentAt = [i \in SubIds |-> {}]
    /\ probe \in {[fn |-> "race", reqs |-> <<q1, q2>>, log |-> <<>>] :
                    q1 \in RaceRequests, q2 \in RaceRequests}

NextRace ==
    \E r \in {1, 2} :
        \/ updateFindById(r)
        \/ updateFindByIdAndUpdate(r)
        \/ deleteFindById(r)
        \/ deleteDeleteOne(r)
        \/ statsFindActive(r)
        \/ statsFindUpcoming(r)

SpecRace == InitRace /\ [][NextRace]_vars

----------------------------------------------------------------------------
\* C1: shouldSendReminder is true exactly when the record is active, its
\* reminder is enabled, lastReminderSent is unset or at least 24 hours before
\* now, and nextBillingDate lies strictly after now and at most
\* reminderDaysBefore days after now (upper bound inclusive).
C1_DueIffAllFour ==
    \A id \in DOMAIN store :
        LET r == store[id] IN
        shouldSendReminder(r, now) <=>
            /\ r.status = "active"
            /\ r.reminderEnabled = TRUE
            /\ \A l \in r.lastReminderSent : l + 24 <= now
            /\ now < r.nextBillingDate
            /\ (r.nextBillingDate - now) * r.reminderDaysBefore.d
                 <= r.reminderDaysBefore.n * 24

\* a record evaluated as due exactly reminderDaysBefore days before billing,
\* with its last reminder exactly 24 hours old
C1_Witness ==
    /\ event.op = "evaluate" /\ event.at = now /\ event.due
    /\ \E id \in DOMAIN store :
        /\ event.id = id
        /\ (store[id].nextBillingDate - now) * store[id].reminderDaysBefore.d
             = store[id].reminderDaysBefore.n * 24
        /\ store[id].lastReminderSent = {now - 24}

\* C2: whenever lastReminderSent is set and less than 24 hours have elapsed
\* since it, the decision is false whatever the other fields are; at exactly
\* 24 hours the debounce no longer decides: the result is then the result
\* for the same record with lastReminderSent unset.
C2_DebounceBlocks ==
    \A id \in DOMAIN store :
        LET r == store[id] IN
        \A l \in r.lastReminderSent :
            /\ (now - l < 24) => ~shouldSendReminder(r, now)
            /\ (now - l = 24) =>
                 (shouldSendReminder(r, now) <=>
                    shouldSendReminder([r EXCEPT !.lastReminderSent = {}], now))

\* an evaluation answered false for a record that is inside its window,
\* active and enabled, less than 24 hours after its last reminder
C2_Witness ==
    /\ event.op = "evaluate" /\ event.at = now /\ ~event.due
    /\ \E id \in DOMAIN store :
        LET r == store[id] IN
        /\ event.id = id
        /\ r.status = "active" /\ r.reminderEnabled
        /\ now < r.nextBillingDate
        /\ (r.nextBillingDate - now) * r.reminderDaysBefore.d
             <= r.reminderDaysBefore.n * 24
        /\ \E l \in r.lastReminderSent : now - l = 12

\* C5: evaluating the decision leaves the stored record as it was, whether
\* the answer is true or false.
C5_EvaluateLeavesRecord ==
    [][(event'.op = "evaluate" /\ event' # event) => store' = store]_vars

\* an evaluation that answered true has happened
C5_Witness ==
    /\ event.op = "evaluate" /\ event.due
    /\ event.id \in DOMAIN store

\* C3: once now has reached a record's nextBillingDate the decision is false,
\* and it stays false at the next instant of every step that leaves the
\* record's nextBillingDate as it was; nextBillingDate itself changes only
\* in a successful update request on that record (nothing advances it).
C3_MissedStaysMissed ==
    [][\A id \in DOMAIN store :
          /\ (now >= store[id].nextBillingDate) =>
                /\ ~shouldSendReminder(store[id], now)
                /\ (/\ id \in DOMAIN store'
                    /\ store'[id].nextBillingDate = store[id].nextBillingDate)
                   => /\ now' >= store'[id].nextBillingDate
                      /\ ~shouldSendReminder(store'[id], now')
          /\ (/\ id \in DOMAIN store'
              /\ store'[id].nextBillingDate # store[id].nextBillingDate)
             => /\ event'.op = "update" /\ event'.id = id
                /\ event'.code = 200
      ]_vars

\* the scheduler evaluated an active, enabled record with no reminder sent
\* yet, at or after its billing date, and the answer was false
C3_Witness ==
    /\ event.op = "evaluate" /\ event.at = now /\ ~event.due
    /\ \E id \in DOMAIN store :
        /\ event.id = id
        /\ now >= store[id].nextBillingDate
        /\ store[id].status = "active" /\ store[id].reminderEnabled
        /\ store[id].lastReminderSent = {}

\* C4: the dispatcher never sends two reminders for the same record less
\* than 24 hours apart.
C4_NoTwoSendsWithin24h ==
    [][\A id \in SubIds :
          (event'.op = "dispatch" /\ event'.id = id /\ event' # event)
          => \A t \in sentAt[id] : now' - t >= 24
      ]_vars

\* C6: lastReminderSent of a stored record changes only in a step of the
\* dispatcher; no create, update or delete request changes it.
C6_OnlyDispatchWritesLastReminderSent ==
    [][\A id \in DOMAIN store \cap DOMAIN store' :
          store'[id].lastReminderSent # store[id].lastReminderSent
          => event'.op = "dispatch"
      ]_vars

\* the records a user's requests can read
OwnedBy(u, st) == {<<i, st[i]>> : i \in {j \in DOMAIN st : st[j].user = u}}

\* C7: a get, update or delete on another user's record is refused (403, or
\* 400 when the body already fails validation) and leaves the store
\* unchanged, a list or stats answer holds only records of the caller, and a
\* request of one user never changes what another user reads.
C7_OwnerOnly ==
    [][\A u \in Users :
          (event'.actor = u /\ event' # event) =>
             /\ (/\ event'.op \in {"get", "update", "delete"}
                 /\ event'.id \in DOMAIN store
                 /\ store[event'.id].user # u)
                => (event'.code \in {400, 403} /\ store' = store)
             /\ (event'.op \in {"list", "stats"})
                => \A i \in event'.ids : store[i].user = u
             /\ \A v \in Users \ {u} : OwnedBy(v, store') = OwnedBy(v, store)
      ]_vars

\* C8: for every cost and each of the four billing cycles, the yearlyCost
\* read from a document is exactly 12 times the monthlyCost read from it.
C8_YearlyIsTwelveMonthly ==
    (probe.fn = "cost" /\ probe.done /\ probe.billingCycle \in BillingCycles)
    => probe.yearlyCost.n * probe.monthlyCost.d
         = 12 * probe.monthlyCost.n * probe.yearlyCost.d

\* the virtuals of a weekly 23.08 were read
C8_Witness ==
    /\ probe.fn = "cost" /\ probe.done
    /\ probe.billingCycle = "weekly"
    /\ probe.cost = [n |-> 577, d |-> 25]
    /\ probe.yearlyCost.n > 0

\* C9: monthlyCost follows the conversion table: weekly cost * 4.33,
\* monthly cost, quarterly cost / 3, yearly cost / 12; 100 monthly, 1200
\* yearly and 300 quarterly all give 100.
C9_ConversionTable ==
    (probe.fn = "cost" /\ probe.done) =>
        LET c == probe.cost
            m == probe.monthlyCost
        IN  /\ probe.billingCycle = "weekly"
                => m.n * c.d * 100 = c.n * 433 * m.d
            /\ probe.billingCycle = "monthly"
                => m.n * c.d = c.n * m.d
            /\ probe.billingCycle = "quarterly"
                => 3 * m.n * c.d = c.n * m.d
            /\ probe.billingCycle = "yearly"
                => 12 * m.n * c.d = c.n * m.d
            /\ (\/ (c.n = 100 /\ c.d = 1 /\ probe.billingCycle = "monthly")
                \/ (c.n = 1200 /\ c.d = 1 /\ probe.billingCycle = "yearly")
                \/ (c.n = 300 /\ c.d = 1 /\ probe.billingCycle = "quarterly"))
               => (m.n = 100 /\ m.d = 1)

\* the monthlyCost of a quarterly 300 was read and is 100
C9_Witness ==
    /\ probe.fn = "cost" /\ probe.done
    /\ probe.billingCycle = "quarterly"
    /\ probe.cost = [n |-> 300, d |-> 1]
    /\ probe.monthlyCost = [n |-> 100, d |-> 1]

\* the date N calendar months after a date, with the day-of-month kept when
\* the target month has it and otherwise the target month's last day
ClampedMonthsLater(dt, k) ==
    LET ty == dt.y + ((dt.m + k) \div 12)
        tm == (dt.m + k) % 12
        last == DaysInMonth(ty, tm)
    IN  [y |-> ty, m |-> tm, d |-> IF dt.d <= last THEN dt.d ELSE last]

\* C10: for monthly (1 month) and quarterly (3 months) the result keeps the
\* day-of-month when the target month has that day and is otherwise the last
\* day of the target month, never a day of the following month; 2024-01-31
\* monthly gives 2024-02-29 and 2023-01-31 monthly gives 2023-02-28.
C10_MonthlyQuarterlyClamp ==
    (probe.fn = "date" /\ probe.done) =>
        /\ probe.billingCycle = "monthly"
            => probe.result = ClampedMonthsLater(probe.fromDate, 1)
        /\ probe.billingCycle = "quarterly"
            => probe.result = ClampedMonthsLater(probe.fromDate, 3)
        /\ (probe.billingCycle = "monthly"
            /\ probe.fromDate = [y |-> 2024, m |-> 0, d |-> 31])
            => probe.result = [y |-> 2024, m |-> 1, d |-> 29]
        /\ (probe.billingCycle = "monthly"
            /\ probe.fromDate = [y |-> 2023, m |-> 0, d |-> 31])
            => probe.result = [y |-> 2023, m |-> 1, d |-> 28]

\* C11: for yearly the result is the same month and day one calendar year
\* later, except that Feb 29 with a non-leap target year gives Feb 28 of the
\* target year.
C11_YearlyKeepsMonthAndDay ==
    (probe.fn = "date" /\ probe.done /\ probe.billingCycle = "yearly") =>
        LET f == probe.fromDate IN
        probe.result =
            IF f.m = 1 /\ f.d = 29 /\ ~IsLeap(f.y + 1)
            THEN [y |-> f.y + 1, m |-> 1, d |-> 28]
            ELSE [y |-> f.y + 1, m |-> f.m, d |-> f.d]

\* C12: after the call the caller's Date object holds the value it held
\* before, and the returned object is another object than the caller's, for
\* every billing cycle.
C12_FromDateNotMutated ==
    (probe.fn = "date" /\ probe.done) =>
        /\ probe.heap["fromDate"] = probe.fromDate
        /\ probe.ret # "fromDate"
        /\ probe.ret \in DOMAIN probe.heap

\* a monthly call returned a date other than the caller's, whose own object
\* still holds the anchor
C12_Witness ==
    /\ probe.fn = "date" /\ probe.done
    /\ probe.billingCycle = "monthly"
    /\ probe.result # probe.fromDate
    /\ probe.heap["fromDate"] = [y |-> 2024, m |-> 0, d |-> 31]

\* C13: for a billingCycle outside the four enumerated values the virtuals
\* are still read (nothing is raised) and the cost counts as monthly:
\* monthlyCost is the cost and yearlyCost is 12 times the cost.
C13_UnknownCycleCountsAsMonthly ==
    (probe.fn = "cost" /\ probe.done /\ probe.billingCycle \notin BillingCycles)
    => /\ probe.monthlyCost = probe.cost
       /\ probe.yearlyCost.n * probe.cost.d = 12 * probe.cost.n * probe.yearlyCost.d

\* the virtuals of a cost of 7 with the cycle "daily" were read
C13_Witness ==
    /\ probe.fn = "cost" /\ probe.done
    /\ probe.billingCycle = "daily"
    /\ probe.cost = [n |-> 7, d |-> 1]
    /\ probe.yearlyCost = [n |-> 84, d |-> 1]

\* C14: for a billingCycle outside the four enumerated values the date
\* calculation fails and returns no date.
C14_UnknownCycleFailsFast ==
    (probe.fn = "date" /\ probe.done /\ probe.billingCycle \notin BillingCycles)
    => (probe.threw /\ probe.ret = "none")

----------------------------------------------------------------------------
\* the monthly equivalent of a whole-number cost in 1/300 units of currency
C15_Units(doc) ==
    doc.cost.n * (CASE doc.billingCycle = "weekly"    -> 1299
                    [] doc.billingCycle = "monthly"   -> 300
                    [] doc.billingCycle = "quarterly" -> 100
                    [] doc.billingCycle = "yearly"    -> 25)

RECURSIVE C15_SumUnits(_)
C15_SumUnits(ids) ==
    IF ids = {} THEN 0
    ELSE LET i == CHOOSE j \in ids : TRUE
         IN  C15_Units(store[i]) + C15_SumUnits(ids \ {i})

C15_Active ==
    {i \in DOMAIN store :
        store[i].user = probe.user /\ store[i].status = "active"}

C15_Hundredths(h) == [int |-> h \div 100, frac |-> h % 100]

\* C15: the summary's totalSubscriptions is the number of the owner's active
\* records, totalMonthly is the sum of monthlyCost over the active records
\* only, written with two decimals, and totalYearly is twelve times that sum
\* written the same way; 10/monthly, 120/yearly and 30/quarterly, all active,
\* give "30.00" and "360.00", and no active record gives 0 and "0.00".
C15_SummaryTotals ==
    (probe.fn = "stats" /\ probe.done) =>
        LET u == C15_SumUnits(C15_Active)
        IN  /\ probe.totalSubscriptions = Cardinality(C15_Active)
            /\ probe.totalMonthly = C15_Hundredths((2 * u + 3) \div 6)
            /\ probe.totalYearly = C15_Hundredths(4 * u)
            /\ C15_Active = {} =>
                 /\ probe.totalSubscriptions = 0
                 /\ probe.totalMonthly = [int |-> 0, frac |-> 0]
                 /\ probe.totalYearly = [int |-> 0, frac |-> 0]
            /\ ( /\ C15_Active = {"s1", "s2", "s3"}
                 /\ store["s2"].billingCycle = "yearly"
                 /\ store["s3"].cost = Rat(30, 1) ) =>
                 /\ probe.totalMonthly = [int |-> 30, frac |-> 0]
                 /\ probe.totalYearly = [int |-> 360, frac |-> 0]

\* two active records and a paused one: the paused one adds nothing
C15_Witness ==
    /\ probe.fn = "stats" /\ probe.done /\ probe.user = "A"
    /\ DOMAIN store = QueryIds
    /\ C15_Active = {"s1", "s3"}
    /\ store["s2"].user = "A" /\ store["s2"].status = "paused"
    /\ store["s3"].cost = Rat(30, 1)
    /\ probe.totalSubscriptions = 2
    /\ probe.totalMonthly = [int |-> 20, frac |-> 0]
    /\ probe.totalYearly = [int |-> 240, frac |-> 0]

RECURSIVE C16_SumCounts(_, _)
C16_SumCounts(bc, keys) ==
    IF keys = {} THEN 0
    ELSE LET c == CHOOSE k \in keys : TRUE
         IN  bc[c].count + C16_SumCounts(bc, keys \ {c})

\* C16: byCategory has a key for a category exactly when some active record
\* of the owner has that category (none when there is no active record);
\* each key's count is the number of active records of the category and its
\* totalMonthly the sum of their monthlyCost, and the counts add up to
\* totalSubscriptions.
C16_ByCategory ==
    (probe.fn = "stats" /\ probe.done) =>
        LET bc == probe.byCategory
            of(c) == {i \in C15_Active : store[i].category = c}
        IN  /\ DOMAIN bc = {c \in Categories : of(c) # {}}
            /\ \A c \in DOMAIN bc :
                 /\ bc[c].count = Cardinality(of(c))
                 /\ bc[c].count > 0
                 /\ bc[c].totalMonthly.n * 300
                      = C15_SumUnits(of(c)) * bc[c].totalMonthly.d
            /\ C16_SumCounts(bc, DOMAIN bc) = probe.totalSubscriptions
            /\ C15_Active = {} => DOMAIN bc = {}

\* two active Entertainment records, and a Software record that is paused
C16_Witness ==
    /\ probe.fn = "stats" /\ probe.done /\ probe.user = "A"
    /\ DOMAIN store = QueryIds
    /\ C15_Active = {"s1", "s3"}
    /\ store["s3"].category = "Entertainment"
    /\ store["s2"].user = "A" /\ store["s2"].status = "paused"
    /\ DOMAIN probe.byCategory = {"Entertainment"}
    /\ probe.byCategory["Entertainment"].count = 2

\* C17: for one instant now, upcomingRenewals holds exactly the owner's
\* active records with now <= nextBillingDate <= now + 30 days, in ascending
\* nextBillingDate order, each with daysUntil = ceil((nextBillingDate - now)
\* / 1 day) against that same now; cancelled and paused records are absent.
C17_UpcomingRenewals ==
    (probe.fn = "stats" /\ probe.done) =>
        \E t \in probe.at..probe.mapAt :
            LET r == probe.upcomingRenewals
                window == {i \in C15_Active :
                             /\ t <= store[i].nextBillingDate
                             /\ store[i].nextBillingDate
                                  <= t + 30 * HoursPerDay}
            IN  /\ {r[k].id : k \in 1..Len(r)} = window
                /\ Len(r) = Cardinality(window)
                /\ \A k \in 1..Len(r) :
                     /\ store[r[k].id].status = "active"
                     /\ r[k].nextBillingDate = store[r[k].id].nextBillingDate
                     /\ k < Len(r) =>
                          r[k].nextBillingDate <= r[k + 1].nextBillingDate
                     /\ (r[k].daysUntil - 1) * HoursPerDay
                          < r[k].nextBillingDate - t
                     /\ r[k].nextBillingDate - t
                          <= r[k].daysUntil * HoursPerDay

\* the records a listing answers with, as a set
C18_Answered ==
    IF probe.stage = "answered"
    THEN {probe.subscriptions[k] : k \in 1..Len(probe.subscriptions)}
    ELSE {probe.filteredSubs[k] : k \in 1..Len(probe.filteredSubs)}

\* the records a listing chooses from: the owner's records on the server,
\* the fetched list on the page
C18_Offered ==
    IF probe.stage = "answered"
    THEN {i \in DOMAIN store : store[i].user = probe.user}
    ELSE {probe.subscriptions[k] : k \in 1..Len(probe.subscriptions)}

\* C18 as stated: listing filters by status and category with exact match,
\* and a filter that is `all` or absent does not filter on its field, on the
\* server and on the page alike; status = all returns every status.
C18_AllOrAbsentIsNoFilter ==
    (probe.fn = "list" /\ probe.stage \in {"answered", "filtered"}) =>
        LET status == IF probe.stage = "answered" THEN probe.status
                      ELSE {probe.statusFilter}
            category == IF probe.stage = "answered" THEN probe.category
                        ELSE {probe.categoryFilter}
        IN  C18_Answered =
              {i \in C18_Offered :
                 /\ (status # {} /\ status # {"all"})
                      => store[i].status \in status
                 /\ (category # {} /\ category # {"all"})
                      => store[i].category \in category}

\* C18, amended: listing filters by status and category with exact match.
\* On the page a filter value of `all` does not filter on its field, so
\* status = all returns the records of every status.  On the server an
\* absent filter does not filter on its field, and `all` is matched like any
\* other value, so it returns no record.
C18_ExactMatchPerListing ==
    /\ (probe.fn = "list" /\ probe.stage = "answered") =>
         /\ C18_Answered =
              {i \in C18_Offered :
                 /\ probe.status # {} => store[i].status \in probe.status
                 /\ probe.category # {}
                      => store[i].category \in probe.category}
         /\ (probe.status = {"all"} \/ probe.category = {"all"})
              => Len(probe.subscriptions) = 0
    /\ (probe.fn = "list" /\ probe.stage = "filtered") =>
         C18_Answered =
           {i \in C18_Offered :
              /\ probe.statusFilter # "all"
                   => store[i].status = probe.statusFilter
              /\ probe.categoryFilter # "all"
                   => store[i].category = probe.categoryFilter}

\* the page shows an active, a paused and a cancelled record under status all
C18_Witness ==
    /\ probe.fn = "list" /\ probe.stage = "filtered"
    /\ probe.statusFilter = "all" /\ probe.categoryFilter = "all"
    /\ {store[i].status : i \in C18_Answered}
         = {"active", "paused", "cancelled"}
    /\ Len(probe.filteredSubs) = 3

\* the sequence a listing answers with
C19_Result ==
    IF probe.stage = "answered" THEN probe.subscriptions
    ELSE probe.filteredSubs

\* the sort key of a listing: the parameter on the server, the menu value on
\* the page, "" when none was given
C19_SortKey ==
    IF probe.stage = "filtered" THEN probe.sortBy
    ELSE IF probe.sort = {} THEN ""
    ELSE CHOOSE k \in probe.sort : TRUE

\* a and b carry the same value of the field the sort key orders by
C19_SameKey(a, b) ==
    CASE C19_SortKey \in {"cost-high", "cost-low"} ->
           a.cost.n * b.cost.d = b.cost.n * a.cost.d
      [] C19_SortKey \in {"date-newest", "date-oldest"} ->
           a.createdAt = b.createdAt
      [] OTHER -> a.nextBillingDate = b.nextBillingDate

\* a may stand before b under the sort key
C19_InOrder(a, b) ==
    CASE C19_SortKey = "cost-high" ->
           a.cost.n * b.cost.d >= b.cost.n * a.cost.d
      [] C19_SortKey = "cost-low" ->
           a.cost.n * b.cost.d <= b.cost.n * a.cost.d
      [] C19_SortKey = "date-newest" -> a.createdAt >= b.createdAt
      [] C19_SortKey = "date-oldest" -> a.createdAt <= b.createdAt
      [] OTHER -> a.nextBillingDate <= b.nextBillingDate

\* C19: the list is ordered by the sort key: cost-high by descending cost,
\* cost-low by ascending cost, date-newest by descending createdAt,
\* date-oldest by ascending createdAt, no key by ascending nextBillingDate;
\* and it holds each record that passed the filters exactly once.
C19_OrderedPermutation ==
    (probe.fn = "list" /\ probe.stage \in {"answered", "filtered"}) =>
        LET r == C19_Result
            passed ==
              IF probe.stage = "answered"
              THEN {i \in C18_Offered :
                      /\ probe.status # {} => store[i].status \in probe.status
                      /\ probe.category # {}
                           => store[i].category \in probe.category}
              ELSE {i \in C18_Offered :
                      /\ probe.statusFilter # "all"
                           => store[i].status = probe.statusFilter
                      /\ probe.categoryFilter # "all"
                           => store[i].category = probe.categoryFilter}
        IN  /\ {r[k] : k \in 1..Len(r)} = passed
            /\ Len(r) = Cardinality(passed)
            /\ \A k \in 1..Len(r) - 1 :
                 C19_InOrder(store[r[k]], store[r[k + 1]])

\* costs 50, 10, 30 listed with cost-low come out as 10, 30, 50
C19_Witness ==
    /\ probe.fn = "list" /\ probe.stage = "answered"
    /\ probe.user = "A" /\ probe.sort = {"cost-low"}
    /\ probe.status = {} /\ probe.category = {}
    /\ DOMAIN store = QueryIds
    /\ store["s1"].cost = Rat(50, 1)
    /\ store["s2"].cost = Rat(10, 1)
    /\ store["s3"].cost = Rat(30, 1)
    /\ probe.subscriptions = <<"s2", "s3", "s1">>

\* the place of a record in the order the listing started from: insertion
\* order on the server, the fetched list on the page
C20_Place(i) ==
    IF probe.stage = "answered"
    THEN CHOOSE k \in DOMAIN NaturalOrder : NaturalOrder[k] = i
    ELSE CHOOSE k \in DOMAIN probe.subscriptions : probe.subscriptions[k] = i

\* C20: two listed records with equal sort key (equal cost, equal createdAt,
\* or equal nextBillingDate when no key is given) stand in the order they
\* had before sorting, for every sort key.
C20_Stable ==
    (probe.fn = "list" /\ probe.stage \in {"answered", "filtered"}) =>
        \A m, n \in 1..Len(C19_Result) :
            (m < n /\ C19_SameKey(store[C19_Result[m]], store[C19_Result[n]]))
                => C20_Place(C19_Result[m]) < C20_Place(C19_Result[n])

\* a body that breaks no rule of the data model and may lack nextBillingDate
C21_ValidButForDate(body) ==
    /\ \A c \in body.cost : c.n >= 0
    /\ body.billingCycle \subseteq BillingCycles
    /\ body.category \subseteq Categories
    /\ \A r \in body.reminderDaysBefore : r.d <= r.n /\ r.n <= 30 * r.d

\* C21: a create whose body lacks nextBillingDate succeeds and the stored
\* nextBillingDate is the next billing date calculated from startDate and
\* billingCycle; a supplied nextBillingDate is stored as given.
C21_CreateFillsNextBillingDate ==
    [][\A u \in Users, body \in SaveCreateBodies :
          (createSubscription(u, body) /\ C21_ValidButForDate(body)) =>
             /\ event'.code = 201
             /\ event'.id \in DOMAIN store'
             /\ body.nextBillingDate = {} =>
                  store'[event'.id].nextBillingDate =
                     HoursOfDate(calculateNextBillingDate(
                                    store'[event'.id].billingCycle,
                                    DateOfHours(store'[event'.id].startDate)),
                                 store'[event'.id].startDate % 24)
             /\ body.nextBillingDate # {} =>
                  store'[event'.id].nextBillingDate \in body.nextBillingDate
      ]_vars

\* C22: an edit that changes billingCycle leaves nextBillingDate at the
\* value the edit supplies, and an edit that supplies none leaves the stored
\* nextBillingDate as it was; nothing is recalculated.
C22_EditKeepsNextBillingDate ==
    [][\A u \in Users, id \in DOMAIN store, body \in SaveBodies :
          updateSubscription(u, id, body) =>
             /\ store'[id].billingCycle # store[id].billingCycle =>
                  store'[id].nextBillingDate =
                     Supplied(body.nextBillingDate, store[id].nextBillingDate)
             /\ body.nextBillingDate = {} =>
                  store'[id].nextBillingDate = store[id].nextBillingDate
      ]_vars

\* an edit made a record yearly and its nextBillingDate is the 36 of the
\* edit, not a year after the start date
C22_Witness ==
    /\ event.op = "update" /\ event.code = 200
    /\ event.id \in DOMAIN store
    /\ store[event.id].billingCycle = "yearly"
    /\ store[event.id].startDate = 0
    /\ store[event.id].nextBillingDate = 36

\* C25: after every create, update or delete request each stored record has
\* cost >= 0, billingCycle one of the four cycles, status one of the three,
\* reminderDaysBefore a whole number from 1 to 30 and category one of the
\* nine; a refused request leaves the store as it was.
C25_StoredRecordsValid ==
    [][/\ \A id \in DOMAIN store' :
            /\ store'[id].cost.n >= 0
            /\ store'[id].billingCycle \in
                 {"weekly", "monthly", "quarterly", "yearly"}
            /\ store'[id].status \in {"active", "cancelled", "paused"}
            /\ store'[id].reminderDaysBefore.d = 1
            /\ store'[id].reminderDaysBefore.n \in 1..30
            /\ store'[id].category \in Categories
       /\ event'.code \in {400, 403, 404, 500} => store' = store
      ]_vars

\* C23 as stated: a successful delete removes the record, and from then on
\* the record stays absent, every get-by-id, update or delete of its id
\* answers 404, and no list or stats answer holds it.
C23_DeletedAnswers404 ==
    [][\A id \in SubIds :
          /\ (/\ event' # event /\ event'.op = "delete"
              /\ event'.code = 200 /\ event'.id = id)
             => id \notin DOMAIN store'
          /\ (id \in used /\ id \notin DOMAIN store) =>
               /\ id \notin DOMAIN store'
               /\ (/\ event' # event /\ event'.id = id
                   /\ event'.op \in {"get", "update", "delete"})
                  => event'.code = 404
               /\ (event' # event /\ event'.op \in {"list", "stats"})
                  => id \notin event'.ids
      ]_vars

\* C23, amended: a successful delete removes the record, and from then on
\* the record stays absent, every get-by-id or delete of its id answers 404,
\* every update of its id answers 404, or 400 when its body fails the
\* request validation that runs before the handler, and no list or stats
\* answer holds it.
C23_DeletedStaysDeleted ==
    [][\A id \in SubIds :
          /\ (/\ event' # event /\ event'.op = "delete"
              /\ event'.code = 200 /\ event'.id = id)
             => id \notin DOMAIN store'
          /\ (id \in used /\ id \notin DOMAIN store) =>
               /\ id \notin DOMAIN store'
               /\ (/\ event' # event /\ event'.id = id
                   /\ event'.op \in {"get", "delete"})
                  => event'.code = 404
               /\ (/\ event' # event /\ event'.id = id
                   /\ event'.op = "update")
                  => event'.code \in {400, 404}
               /\ (event' # event /\ event'.op \in {"list", "stats"})
                  => id \notin event'.ids
      ]_vars

\* an update of a deleted record's id was answered 404
C23_Witness ==
    /\ event.op = "update" /\ event.code = 404
    /\ event.id \in used /\ event.id \notin DOMAIN store

\* C26: the user field of a stored record never changes, and a new record's
\* user is the authenticated user who created it; an update whose body
\* carries another user id does not hand the record over.
C26_OwnerNeverChanges ==
    [][/\ \A id \in DOMAIN store \cap DOMAIN store' :
            store'[id].user = store[id].user
       /\ \A id \in DOMAIN store' \ DOMAIN store :
            event'.op = "create" /\ store'[id].user = event'.actor
      ]_vars

\* C27: for a record whose nextBillingDate, status, reminderEnabled and
\* reminderDaysBefore = k stay as they are, a dispatcher that sends when the
\* decision is true and then sets lastReminderSent has sent at most k
\* reminders for that billing date, whatever the schedule of ticks.
C27_AtMostKReminders ==
    \A id \in DOMAIN store :
        Cardinality(sentAt[id]) * store[id].reminderDaysBefore.d
            <= store[id].reminderDaysBefore.n

----------------------------------------------------------------------------
\* the record carries the value of every field the body supplies
C24_Carries(doc, body) ==
    /\ \A v \in body.cost : doc.cost = v
    /\ \A v \in body.billingCycle : doc.billingCycle = v
    /\ \A v \in body.category : doc.category = v
    /\ \A v \in body.startDate : doc.startDate = v
    /\ \A v \in body.nextBillingDate : doc.nextBillingDate = v
    /\ \A v \in body.status : doc.status = v

C24_BothUpdatesAnswered200 ==
    /\ probe.fn = "race"
    /\ \A r \in {1, 2} : /\ probe.reqs[r].op = "update"
                         /\ probe.reqs[r].pc = "done"
                         /\ probe.reqs[r].code = 200

\* C24: when two updates of the same record by its owner are in flight
\* together and both answer 200, in every interleaving both writes were
\* applied, the stored record carries for every supplied field the value of
\* the update applied last, the answer of the update applied last is the
\* stored record, and the answer of the other one is a record carrying its
\* own values.
C24_LastWriterWins ==
    C24_BothUpdatesAnswered200 =>
        /\ Len(probe.log) = 2
        /\ probe.log[1] # probe.log[2]
        /\ "s1" \in DOMAIN store
        /\ C24_Carries(store["s1"], probe.reqs[probe.log[2]].body)
        /\ probe.reqs[probe.log[2]].subscription = {store["s1"]}
        /\ \A doc \in probe.reqs[probe.log[1]].subscription :
              C24_Carries(doc, probe.reqs[probe.log[1]].body)
        /\ probe.reqs[probe.log[1]].subscription # {}

\* both updates passed the ownership check before either wrote, the two
\* bodies disagree on cost, and request 1 was applied last
C24_Witness ==
    /\ C24_BothUpdatesAnswered200
    /\ probe.log = <<2, 1>>
    /\ probe.reqs[1].body.cost # probe.reqs[2].body.cost
    /\ probe.reqs[1].body.status # probe.reqs[2].body.status
    /\ store["s1"].cost \in probe.reqs[1].body.cost

----------------------------------------------------------------------------
\* C29: an update that answers 200 returns a record, and that record is
\* owned by the caller, whatever another request did between the update's
\* ownership check and its write.
C29_SuccessReturnsRecord ==
    probe.fn = "race" =>
        \A r \in {1, 2} :
            (/\ probe.reqs[r].op = "update"
             /\ probe.reqs[r].pc = "done"
             /\ probe.reqs[r].code = 200)
            => /\ probe.reqs[r].subscription # {}
               /\ \A doc \in probe.reqs[r].subscription :
                     doc.user = probe.reqs[r].user

----------------------------------------------------------------------------
\* C28: every record a stats answer lists in upcomingRenewals is one of the
\* active records the same answer counted and summed, and every listed
\* daysUntil lies in 0..30, whatever another request wrote while the stats
\* request was in flight.
C28_StatsOneSnapshot ==
    probe.fn = "race" =>
        \A r \in {1, 2} :
            (probe.reqs[r].op = "stats" /\ probe.reqs[r].pc = "done")
            => \A k \in 1..Len(probe.reqs[r].upcomingRenewals) :
                  /\ probe.reqs[r].upcomingRenewals[k].id
                        \in probe.reqs[r].counted
                  /\ probe.reqs[r].upcomingRenewals[k].daysUntil
                        \in 0..RenewalWindowDays

----------------------------------------------------------------------------
\* the ids in a listing answer
C30_Returned == {probe.subscriptions[k] : k \in 1..Len(probe.subscriptions)}

C30_ActiveReturned == {i \in C30_Returned : store[i].status = "active"}

\* C30: in a listing answer count is the number of the caller's records that
\* match the status and category parameters, whatever their status;
\* totalMonthly and totalYearly are the sums over the active records among
\* those returned; a listing with status cancelled or paused has totalMonthly
\* 0.00; and a listing without parameters has the totals of the stats
\* summary of the same store.
C30_ListTotals ==
    (probe.fn = "list" /\ probe.stage = "answered") =>
        /\ probe.count =
             Cardinality({i \in DOMAIN store :
                            /\ store[i].user = probe.user
                            /\ \A s \in probe.status : store[i].status = s
                            /\ \A c \in probe.category : store[i].category = c})
        /\ probe.totalMonthly = toFixed(SumMonthlyCost(store, C30_ActiveReturned))
        /\ probe.totalYearly =
             toFixed(RatMul(SumMonthlyCost(store, C30_ActiveReturned), Rat(12, 1)))
        /\ (probe.status \in {{"cancelled"}, {"paused"}}
              => probe.totalMonthly = [int |-> 0, frac |-> 0])
        /\ (probe.status = {} /\ probe.category = {}
              => LET total == SumMonthlyCost(store,
                                  activeSubscriptions(store, probe.user))
                 IN  /\ probe.totalMonthly = toFixed(total)
                     /\ probe.totalYearly = toFixed(RatMul(total, Rat(12, 1))))

\* a listing with status = cancelled that returns a record with a cost and
\* still totals 0.00
C30_Witness ==
    /\ probe.fn = "list" /\ probe.stage = "answered"
    /\ probe.status = {"cancelled"}
    /\ probe.count >= 1
    /\ \E i \in C30_Returned : store[i].cost.n > 0
    /\ probe.totalMonthly = [int |-> 0, frac |-> 0]

====
